---- MODULE Spec2Model ----
(***************************************************************************)
(* Model of the ChainPorter of tapfreighter/chain_porter.go: the send      *)
(* state machine (advanceState / stateStep), the request intake goroutine  *)
(* (taroPorter), the resume goroutines started by Start, the export        *)
(* journal, the proof archive, the proof courier and the event             *)
(* subscribers.                                                            *)
(***************************************************************************)
EXTENDS Integers, Sequences, FiniteSets, TLC

\* ---------------------------------------------------------------- bounds
NumParcels == 1
MaxConfirmFailures == 1
NumSubscribers == 2

Parcels == 1..NumParcels

\* The event receivers the clients create.
Subscribers == 1..NumSubscribers

\* ------------------------------------------------------------ send states
SendStateVirtualCommitmentSelect == 1
SendStateVirtualSign == 2
SendStateAnchorSign == 3
SendStateLogCommit == 4
SendStateBroadcast == 5
SendStateWaitTxConf == 6
SendStateStoreProofs == 7
SendStateReceiverProofTransfer == 8
SendStateComplete == 9

\* ---------------------------------------------------------- parcel shapes
\* A transfer output: its type, whether the script key carries a tweak
\* (TweakedScriptKey != nil), whether the key ring knows the raw key, and
\* the script key itself.
Output(type, tweak, localKey, key) ==
    [type |-> type, tweak |-> tweak, localKey |-> localKey, key |-> key]

\* An address send that merges two inputs and splits them: the split root
\* carries the local change, the second output goes to a remote receiver
\* whose key has no tweak. One passive asset shares the anchor.
ShapeSplit ==
    [kind |-> "address", nIn |-> 2, nPassive |-> 1,
     outs |-> << Output("splitRoot", TRUE, TRUE, "K3"),
                 Output("commitment", FALSE, FALSE, "K2") >>]

\* A pre-signed full-value send to a remote receiver whose key is tweaked
\* but unknown to the key ring, with a passive-only anchor output whose
\* script key has no tweak.
ShapePreSigned ==
    [kind |-> "preSigned", nIn |-> 1, nPassive |-> 1,
     outs |-> << Output("commitment", TRUE, FALSE, "K2"),
                 Output("passiveOnly", FALSE, FALSE, "K0") >>]

\* A pre-signed parcel without active transfer: the anchor only re-anchors
\* two passive assets into an output of this wallet.
ShapePassiveOnly ==
    [kind |-> "preSigned", nIn |-> 0, nPassive |-> 2,
     outs |-> << Output("passiveOnly", TRUE, TRUE, "K3") >>]

ShapeSeq == << ShapeSplit, ShapePreSigned, ShapePassiveOnly >>

\* The parcels of one behaviour take consecutive shapes of ShapeSeq, starting
\* anywhere.
ShapeAssignments ==
    {[p \in Parcels |-> ShapeSeq[((p + k) % Len(ShapeSeq)) + 1]] :
        k \in 1..Len(ShapeSeq)}

OutIdx(sh) == 1..Len(sh.outs)
PassiveIdx(sh) == 1..sh.nPassive

VARIABLES
    shape,      \* parcel -> the shape of the transfer it requests
    courier,    \* cfg.ProofCourier != nil
    startOnce,  \* Start's sync.Once has fired
    quit,       \* p.Quit is closed
    intake,     \* the taroPorter goroutine: "off", "idle", "busy", "exit"
    caller,     \* parcel -> position of its RequestShipment call
    kit,        \* parcel -> contents of the kit's respChan and errChan
    pkg,        \* parcel -> the sendPackage its driver carries
    journal,    \* parcel -> the ExportLog record
    chain,      \* parcel -> the anchor tx on chain, the outputs in the wallet
    archive,    \* parcel -> proofs imported into the proof archive
    log,        \* parcel -> what the collaborators were asked to do
    errRecv,    \* the main server is receiving from cfg.ErrChan
    subs,       \* p.subscribers and the event receivers of the clients
    stop        \* the position of the Stop call inside stopOnce.Do

vars == << shape, courier, startOnce, quit, intake, caller, kit, pkg,
           journal, chain, archive, log, errRecv, subs, stop >>

\* ------------------------------------------------------------ initial state
\* sendPkg.FinalProofs is nil: a map without entries.
NoFinalProofs == [k \in {} |-> << >>]

\* No sendPackage exists for the parcel (none was built, or the process that
\* held it is gone).
NoPkg ==
    [task |-> "none", pc |-> "none", state |-> 0, passive |-> FALSE,
     local |-> {}, proofs |-> NoFinalProofs, conf |-> FALSE]

EmptyKit == [resp |-> FALSE, err |-> FALSE]

\* The part of the call log that belongs to one run of the process.
RunLog ==
    [executed |-> << >>, events |-> << >>, courier |-> {}, backoff |-> FALSE,
     failedAt |-> 0, errSent |-> 0, confirmRun |-> 0, quitAtAwait |-> FALSE,
     drivers |-> 0, waitEnd |-> "none", courierErr |-> FALSE,
     importErr |-> FALSE, published |-> FALSE]

EmptyLog ==
    [run |-> RunLog, publishCalled |-> FALSE, confirmCalls |-> 0,
     confirmOK |-> 0, lostJournaled |-> FALSE]

\* The subscribers map is empty and no event receiver exists: `map` holds
\* the IDs in p.subscribers, `created` the receivers clients have made and
\* registered, `stopped` the receivers whose Stop was called, `mtx` the
\* call that holds subscriberMtx and `arg` the receiver of that call.
NoSubscribers ==
    [map |-> {}, created |-> {}, stopped |-> {}, mtx |-> "free", arg |-> 0]

\* Stop was not called: `pc` is its position, `sub` the loop variable of its
\* range over p.subscribers, `stopErr` its result, `ranged` the subscribers
\* that were registered when the range began, `started` whether startOnce
\* had fired when p.Wg.Wait() returned.
NoStop ==
    [pc |-> "idle", sub |-> 0, stopErr |-> FALSE, ranged |-> {},
     started |-> FALSE]

\* NewChainPorter: the in-memory state of a freshly constructed porter.
NewChainPorter ==
    /\ startOnce = FALSE
    /\ quit = FALSE
    /\ subs = NoSubscribers
    /\ stop = NoStop
    /\ intake = "off"
    /\ caller = [p \in Parcels |-> "idle"]
    /\ kit = [p \in Parcels |-> EmptyKit]
    /\ pkg = [p \in Parcels |-> NoPkg]

Init ==
    /\ shape \in ShapeAssignments
    /\ courier \in BOOLEAN
    /\ NewChainPorter
    /\ journal = [p \in Parcels |-> [status |-> "none", local |-> {}]]
    /\ chain = [p \in Parcels |-> [tx |-> "none", wallet |-> {}]]
    /\ archive = [p \in Parcels |->
                    [passive |-> [a \in PassiveIdx(shape[p]) |-> 0],
                     active |-> {}]]
    /\ log = [p \in Parcels |-> EmptyLog]
    /\ errRecv = TRUE

\* ---------------------------------------------------------------- lifecycle
PendingParcels == {p \in Parcels : journal[p].status = "pending"}

\* Faulty variant: the skeleton sendPackage enters past the re-broadcast.
resumePendingParcel_AtWaitTxConf(p) ==
    [task |-> "resume", pc |-> "loop", state |-> SendStateWaitTxConf,
     passive |-> FALSE, local |-> journal[p].local, proofs |-> NoFinalProofs,
     conf |-> FALSE]

\* resumePendingParcel builds the skeleton sendPackage: only OutboundPkg and
\* SendState are set.
resumePendingParcel(p) ==
    [task |-> "resume", pc |-> "loop", state |-> SendStateBroadcast,
     passive |-> FALSE, local |-> journal[p].local, proofs |-> NoFinalProofs,
     conf |-> FALSE]

\* The function Start hands to startOnce.Do: load the pending parcels, start
\* one goroutine per pending parcel and the taroPorter goroutine; a failing
\* PendingParcels starts nothing. The log counts the advanceState calls
\* started for each parcel.
StartBody ==
    /\ startOnce' = TRUE
    /\ \/ /\ pkg' = [p \in Parcels |->
                       IF p \in PendingParcels
                       THEN resumePendingParcel(p) ELSE pkg[p]]
          /\ log' = [p \in Parcels |->
                       IF p \in PendingParcels
                       THEN [log[p] EXCEPT !.run.drivers = @ + 1]
                       ELSE log[p]]
          /\ intake' = "idle"
       \/ UNCHANGED << pkg, log, intake >>
    /\ UNCHANGED << shape, courier, errRecv, subs, stop, quit, caller, kit,
                    journal, chain, archive >>

\* Faulty variant: Start runs its body on every call.
Start_NoOnce == StartBody

\* Start: startOnce.Do runs the body on the first call only; a later call
\* skips it and returns nil, which leaves every variable as it is.
Start ==
    /\ ~startOnce
    /\ StartBody

\* Stop, first part: under stopOnce, close(p.Quit); the call then waits in
\* p.Wg.Wait(). Closing Quit wakes every RequestShipment call blocked in
\* one of its selects, with the Quit case. A call after the first skips the
\* body and leaves every variable as it is.
Stop ==
    /\ stop.pc = "idle"
    /\ quit' = TRUE
    /\ stop' = [stop EXCEPT !.pc = "wait"]
    /\ caller' = [p \in Parcels |->
                    IF caller[p] \in {"sending", "waiting"}
                    THEN "shutdown" ELSE caller[p]]
    /\ UNCHANGED << shape, courier, errRecv, subs, startOnce, intake,
                    kit, pkg, journal, chain, archive, log >>

\* The process ends (a crash, or an exit after Stop) and a new porter is
\* constructed over the same journal, archive and chain. The log remembers
\* which parcels were lost between LogCommit's journal write and Broadcast
\* and have not been hit again while being resumed.
Restart ==
    /\ startOnce' = FALSE
    /\ quit' = FALSE
    /\ intake' = "off"
    /\ caller' = [p \in Parcels |-> "idle"]
    /\ kit' = [p \in Parcels |-> EmptyKit]
    /\ pkg' = [p \in Parcels |-> NoPkg]
    /\ log' = [p \in Parcels |->
                 [log[p] EXCEPT !.run = RunLog,
                                !.lostJournaled =
                                    IF pkg[p].task = "intake"
                                    THEN /\ pkg[p].state = SendStateBroadcast
                                         /\ ~log[p].publishCalled
                                    ELSE @ /\ pkg[p].task # "resume"]]
    /\ subs' = NoSubscribers
    /\ stop' = NoStop
    /\ errRecv' = TRUE
    /\ UNCHANGED << shape, courier, journal, chain, archive >>

\* ------------------------------------------------------------------ callers
\* RequestShipment reaches its first await, SendOrQuit(p.exportReqs, req,
\* p.Quit). The log notes whether Quit was closed at that moment.
RequestShipment(p) ==
    /\ caller[p] = "idle"
    /\ journal[p].status = "none"
    /\ pkg[p].task = "none"
    /\ caller' = [caller EXCEPT ![p] = "sending"]
    /\ log' = [log EXCEPT ![p].run.quitAtAwait = quit]
    /\ UNCHANGED << shape, courier, errRecv, subs, stop, startOnce, quit,
                    intake, kit, pkg, journal, chain, archive >>

\* req.pkg(): an address parcel enters at VirtualCommitmentSelect, a
\* pre-signed parcel brings its signed virtual packet and enters at
\* AnchorSign.
NewSendPackage(sh) ==
    [task |-> "intake", pc |-> "loop",
     state |-> IF sh.kind = "address"
               THEN SendStateVirtualCommitmentSelect
               ELSE SendStateAnchorSign,
     passive |-> FALSE, local |-> {}, proofs |-> NoFinalProofs, conf |-> FALSE]

\* taroPorter receives the request from exportReqs and runs advanceState
\* for it itself.
IntakeRecv(p) ==
    /\ intake = "idle"
    /\ caller[p] = "sending"
    /\ intake' = "busy"
    /\ caller' = [caller EXCEPT ![p] = "sent"]
    /\ pkg' = [pkg EXCEPT ![p] = NewSendPackage(shape[p])]
    /\ log' = [log EXCEPT ![p].run.drivers = @ + 1]
    /\ UNCHANGED << shape, courier, errRecv, subs, stop, startOnce, quit,
                    kit, journal, chain, archive >>

\* Faulty variant: the select has no Quit case.
RequestShipmentAwait_NoQuitCase(p) ==
    /\ caller[p] = "sent"
    /\ \/ /\ ~kit[p].err /\ ~kit[p].resp
          /\ caller' = [caller EXCEPT ![p] = "waiting"]
          /\ kit' = kit
       \/ /\ kit[p].err
          /\ caller' = [caller EXCEPT ![p] = "gotErr"]
          /\ kit' = [kit EXCEPT ![p].err = FALSE]
       \/ /\ kit[p].resp
          /\ caller' = [caller EXCEPT ![p] = "gotResp"]
          /\ kit' = [kit EXCEPT ![p].resp = FALSE]
    /\ UNCHANGED << shape, courier, errRecv, subs, stop, startOnce, quit,
                    intake, pkg, journal, chain, archive, log >>

\* RequestShipment, the send done, reaches its second await: the select over
\* the kit's errChan, the kit's respChan and p.Quit. With no case ready the
\* call blocks; otherwise the select takes one of the ready cases, whichever.
RequestShipmentAwait(p) ==
    /\ caller[p] = "sent"
    /\ \/ /\ ~quit /\ ~kit[p].err /\ ~kit[p].resp
          /\ caller' = [caller EXCEPT ![p] = "waiting"]
          /\ kit' = kit
       \/ /\ quit
          /\ caller' = [caller EXCEPT ![p] = "shutdown"]
          /\ kit' = kit
       \/ /\ kit[p].err
          /\ caller' = [caller EXCEPT ![p] = "gotErr"]
          /\ kit' = [kit EXCEPT ![p].err = FALSE]
       \/ /\ kit[p].resp
          /\ caller' = [caller EXCEPT ![p] = "gotResp"]
          /\ kit' = [kit EXCEPT ![p].resp = FALSE]
    /\ UNCHANGED << shape, courier, errRecv, subs, stop, startOnce, quit,
                    intake, pkg, journal, chain, archive, log >>

\* taroPorter: case <-p.Quit.
IntakeQuit ==
    /\ intake = "idle"
    /\ quit
    /\ intake' = "exit"
    /\ UNCHANGED << shape, courier, errRecv, subs, stop, startOnce, quit,
                    caller, kit, pkg, journal, chain, archive, log >>

\* RequestShipment, called with Quit closed, returns ShuttingDown from its
\* first await. (A call blocked in either await is woken by the event it
\* waits for: by Stop, by the response, by the error.)
RequestShipmentReturn(p) ==
    /\ caller[p] = "sending"
    /\ quit
    /\ caller' = [caller EXCEPT ![p] = "shutdown"]
    /\ kit' = kit
    /\ UNCHANGED << shape, courier, errRecv, subs, stop, startOnce, quit,
                    intake, pkg, journal, chain, archive, log >>

\* ------------------------------------------------------------- advanceState
\* Faulty variant: the event is put at the head of the subscriber's queue.
publishSubscriberEvent_AtHead(events, state) == << state >> \o events

\* publishSubscriberEvent: the event reaches the subscriber's queue.
publishSubscriberEvent(events, state) == Append(events, state)

\* A send on one of the kit's channels: a RequestShipment call blocked in
\* its second select takes the value at once, otherwise the value stays in
\* the channel.
KitSend(p, field, result) ==
    IF caller[p] = "waiting"
    THEN /\ caller' = [caller EXCEPT ![p] = result]
         /\ kit' = kit
    ELSE /\ caller' = caller
         /\ kit' = [kit EXCEPT ![p][field] = TRUE]

\* Faulty variant: taroPorter goes back to its select without handing the error
\* to the kit's errChan.
Returned_DropsError(p, failed) ==
    /\ intake' = IF pkg[p].task = "intake" THEN "idle" ELSE intake
    /\ UNCHANGED << caller, kit >>

\* advanceState returns to its goroutine: taroPorter hands an error to the
\* kit's errChan and goes back to its select; a resume goroutine ends.
Returned(p, failed) ==
    /\ intake' = IF pkg[p].task = "intake" THEN "idle" ELSE intake
    /\ IF pkg[p].task = "intake" /\ failed
       THEN KitSend(p, "err", "gotErr")
       ELSE UNCHANGED << caller, kit >>

\* The head of advanceState's loop: leave at Complete, leave when Quit is
\* closed, otherwise enter stateStep, which first publishes the event.
LoopHead(p) ==
    /\ pkg[p].pc = "loop"
    /\ IF pkg[p].state >= SendStateComplete \/ quit
       THEN /\ pkg' = [pkg EXCEPT ![p].pc = "ret"]
            /\ Returned(p, FALSE)
            /\ log' = log
       ELSE /\ pkg' = [pkg EXCEPT ![p].pc = "step"]
            /\ log' = [log EXCEPT ![p].run.events =
                         publishSubscriberEvent(@, pkg[p].state)]
            /\ UNCHANGED << intake, caller, kit >>
    /\ UNCHANGED << shape, courier, errRecv, subs, stop, startOnce, quit,
                    journal, chain, archive >>

\* advanceState's error path: p.cfg.ErrChan <- err, then return err. The
\* send has no other case: it completes when the server receives.
SendErrChan(p) ==
    /\ pkg[p].pc = "errchan"
    /\ errRecv
    /\ pkg' = [pkg EXCEPT ![p].pc = "ret"]
    /\ log' = [log EXCEPT ![p].run.errSent = @ + 1]
    /\ Returned(p, TRUE)
    /\ UNCHANGED << shape, courier, errRecv, subs, stop, startOnce, quit,
                    journal, chain, archive >>

\* stateStep is inside the switch arm of `state`.
AtStep(p, state) == pkg[p].pc = "step" /\ pkg[p].state = state

\* Faulty variant: advanceState drops the error and carries on with the next state.
StepFailed_CarriesOn(p) ==
    [pkg EXCEPT ![p].pc = "loop", ![p].state = @ + 1]

\* stateStep returned an error: advanceState keeps the package it passed in.
StepFailed(p) == [pkg EXCEPT ![p].pc = "errchan"]

\* The call log after the step: the state was executed, `failed` tells
\* whether it returned an error.
StepLog(p, failed) ==
    [log EXCEPT ![p].run.executed = Append(@, pkg[p].state),
                ![p].run.failedAt = IF failed THEN pkg[p].state ELSE @]

\* A step that only calls collaborators: they all succeed and the package
\* becomes `upd`, or one of them fails.
PlainStep(p, upd) ==
    /\ \/ /\ pkg' = [pkg EXCEPT ![p] = upd]
          /\ log' = StepLog(p, FALSE)
       \/ /\ pkg' = StepFailed(p)
          /\ log' = StepLog(p, TRUE)
    /\ UNCHANGED << shape, courier, errRecv, subs, stop, startOnce, quit,
                    intake, caller, kit, journal, chain, archive >>

\* case SendStateVirtualCommitmentSelect: FundAddressSend.
StepVirtualCommitmentSelect(p) ==
    /\ AtStep(p, SendStateVirtualCommitmentSelect)
    /\ PlainStep(p, [pkg[p] EXCEPT !.state = SendStateVirtualSign,
                                   !.pc = "loop"])

\* case SendStateVirtualSign: SignVirtualPacket.
StepVirtualSign(p) ==
    /\ AtStep(p, SendStateVirtualSign)
    /\ PlainStep(p, [pkg[p] EXCEPT !.state = SendStateAnchorSign,
                                   !.pc = "loop"])

\* case SendStateAnchorSign: EstimateFee, SignPassiveAssets (which fills
\* currentPkg.PassiveAssets), AnchorVirtualTransactions.
StepAnchorSign(p) ==
    /\ AtStep(p, SendStateAnchorSign)
    /\ PlainStep(p, [pkg[p] EXCEPT !.state = SendStateLogCommit,
                                   !.passive = TRUE, !.pc = "loop"])

\* The outputs LogCommit flags ScriptKeyLocal: the key is tweaked and the
\* key ring knows its raw key.
StampLocal(sh) ==
    {i \in OutIdx(sh) : sh.outs[i].tweak /\ sh.outs[i].localKey}

\* Faulty variant: the error of LogPendingParcel is dropped and the package moves to
\* Broadcast without a journal record.
StepLogCommit_IgnoresError(p) ==
    /\ AtStep(p, SendStateLogCommit)
    /\ pkg' = [pkg EXCEPT ![p].state = SendStateBroadcast,
                          ![p].local = StampLocal(shape[p]),
                          ![p].pc = "loop"]
    /\ log' = StepLog(p, FALSE)
    /\ \/ journal' = [journal EXCEPT ![p] =
                        [status |-> "pending",
                         local |-> StampLocal(shape[p])]]
       \/ journal' = journal
    /\ UNCHANGED << shape, courier, errRecv, subs, stop, startOnce, quit,
                    intake, caller, kit, chain, archive >>

\* case SendStateLogCommit: CurrentHeight, prepareForStorage, stamp the
\* local keys, LogPendingParcel; only a durable record moves to Broadcast.
StepLogCommit(p) ==
    /\ AtStep(p, SendStateLogCommit)
    /\ \/ /\ journal' = [journal EXCEPT ![p] =
                           [status |-> "pending",
                            local |-> StampLocal(shape[p])]]
          /\ pkg' = [pkg EXCEPT ![p].state = SendStateBroadcast,
                                ![p].local = StampLocal(shape[p]),
                                ![p].pc = "loop"]
          /\ log' = StepLog(p, FALSE)
       \/ /\ journal' = journal
          /\ pkg' = StepFailed(p)
          /\ log' = StepLog(p, TRUE)
    /\ UNCHANGED << shape, courier, errRecv, subs, stop, startOnce, quit,
                    intake, caller, kit, chain, archive >>

\* Wallet.ImportTaprootOutput for output i: the wallet fails for a reason of
\* its own at output `fault`, reports an output it already watches, or
\* imports the output.
ImportTaprootOutput(wallet, i, fault) ==
    IF i = fault THEN "error"
    ELSE IF i \in wallet THEN "already exists"
    ELSE "ok"

\* Faulty variant: every error of the wallet ends the imports.
ImportFails_OnExists(res) == res # "ok"

\* importLocalAddresses' switch on the error: nil and "already exists" move
\* along, any other error is returned.
ImportFails(res) == res \notin {"ok", "already exists"}

\* importLocalAddresses: the outputs flagged ScriptKeyLocal go, in output
\* order, to ImportTaprootOutput. The value is the output at which it
\* returns an error, 0 when it returns nil.
importLocalAddresses(local, wallet, fault) ==
    LET failing == {i \in local :
                      ImportFails(ImportTaprootOutput(wallet, i, fault))}
    IN  IF failing = {} THEN 0
        ELSE CHOOSE i \in failing : \A j \in failing : i <= j

\* The outputs importLocalAddresses handled before it returned an error at
\* output f.
ImportedBefore(local, f) == {i \in local : i < f}

\* The call log after importLocalAddresses ran against a wallet that fails
\* for a reason of its own at output `fault` (0: at none).
ImportLog(p, lg, fault) ==
    [lg EXCEPT ![p].run.importErr = fault # 0]

\* The call log after PublishTransaction was called.
PublishLog(p, lg) ==
    [lg EXCEPT ![p].publishCalled = TRUE, ![p].run.published = TRUE]

\* deliverTxBroadcastResp: the package of a request puts the outbound parcel
\* on the kit's respChan; a resumed package has no request to answer.
deliverTxBroadcastResp(p) ==
    IF pkg[p].task = "intake"
    THEN KitSend(p, "resp", "gotResp")
    ELSE UNCHANGED << caller, kit >>

\* Faulty variant: the broadcast response is delivered before the imports and the
\* publication, whatever they return.
StepBroadcast_RespondsFirst(p) ==
    /\ AtStep(p, SendStateBroadcast)
    /\ deliverTxBroadcastResp(p)
    /\ \E fault \in pkg[p].local \cup {0} :
         LET f == importLocalAddresses(pkg[p].local, chain[p].wallet, fault)
         IN  IF f # 0
             THEN /\ chain' = [chain EXCEPT ![p].wallet =
                                 @ \cup ImportedBefore(pkg[p].local, f)]
                  /\ pkg' = StepFailed(p)
                  /\ log' = ImportLog(p, StepLog(p, TRUE), fault)
             ELSE \/ /\ chain' = [chain EXCEPT
                                    ![p].wallet = @ \cup pkg[p].local]
                     /\ pkg' = StepFailed(p)
                     /\ log' = PublishLog(p,
                                  ImportLog(p, StepLog(p, TRUE), fault))
                  \/ /\ chain' = [chain EXCEPT
                                    ![p].wallet = @ \cup pkg[p].local,
                                    ![p].tx = IF @ = "none"
                                              THEN "published" ELSE @]
                     /\ pkg' = [pkg EXCEPT
                                  ![p].state = SendStateWaitTxConf,
                                  ![p].pc = "loop"]
                     /\ log' = PublishLog(p,
                                  ImportLog(p, StepLog(p, FALSE), fault))
    /\ UNCHANGED << shape, courier, errRecv, subs, stop, startOnce, quit,
                    intake, journal, archive >>

\* case SendStateBroadcast: importLocalAddresses, PublishTransaction,
\* deliverTxBroadcastResp.
StepBroadcast(p) ==
    /\ AtStep(p, SendStateBroadcast)
    /\ \E fault \in pkg[p].local \cup {0} :
         LET f == importLocalAddresses(pkg[p].local, chain[p].wallet, fault)
         IN  IF f # 0
             THEN \* importLocalAddresses returns an error at output f:
                  \* PublishTransaction is not reached
                  /\ chain' = [chain EXCEPT ![p].wallet =
                                 @ \cup ImportedBefore(pkg[p].local, f)]
                  /\ pkg' = StepFailed(p)
                  /\ log' = ImportLog(p, StepLog(p, TRUE), fault)
                  /\ UNCHANGED << caller, kit >>
             ELSE \/ \* all imports pass, PublishTransaction fails
                     /\ chain' = [chain EXCEPT
                                    ![p].wallet = @ \cup pkg[p].local]
                     /\ pkg' = StepFailed(p)
                     /\ log' = PublishLog(p,
                                  ImportLog(p, StepLog(p, TRUE), fault))
                     /\ UNCHANGED << caller, kit >>
                  \/ \* all imports pass, the tx is published, the caller
                     \* is answered
                     /\ chain' = [chain EXCEPT
                                    ![p].wallet = @ \cup pkg[p].local,
                                    ![p].tx = IF @ = "none"
                                              THEN "published" ELSE @]
                     /\ pkg' = [pkg EXCEPT
                                  ![p].state = SendStateWaitTxConf,
                                  ![p].pc = "loop"]
                     /\ log' = PublishLog(p,
                                  ImportLog(p, StepLog(p, FALSE), fault))
                     /\ deliverTxBroadcastResp(p)
    /\ UNCHANGED << shape, courier, errRecv, subs, stop, startOnce, quit,
                    intake, journal, archive >>

\* The call log after waitForTransferTxConf: the step was executed, and
\* `how` names the way the wait ended.
WaitLog(p, failed, how) ==
    [StepLog(p, failed) EXCEPT ![p].run.waitEnd = how]

\* Faulty variant: on Quit the wait hands the package back at Broadcast.
StepWaitTxConf_RewindsOnQuit(p) ==
    /\ AtStep(p, SendStateWaitTxConf)
    /\ \/ /\ chain[p].tx # "none"
          /\ chain' = [chain EXCEPT ![p].tx = "confirmed"]
          /\ pkg' = [pkg EXCEPT ![p].state = SendStateStoreProofs,
                                ![p].conf = TRUE, ![p].pc = "loop"]
          /\ log' = WaitLog(p, FALSE, "confirmed")
       \/ /\ chain' = chain
          /\ pkg' = StepFailed(p)
          /\ log' = WaitLog(p, TRUE, "error")
       \/ /\ quit
          /\ chain' = chain
          /\ pkg' = StepFailed(p)
          /\ log' = WaitLog(p, TRUE, "ctxDone")
       \/ /\ quit
          /\ chain' = chain
          /\ pkg' = [pkg EXCEPT ![p].pc = "loop",
                                ![p].state = SendStateBroadcast]
          /\ log' = WaitLog(p, FALSE, "quit")
    /\ UNCHANGED << shape, courier, errRecv, subs, stop, startOnce, quit,
                    intake, caller, kit, journal, archive >>

\* case SendStateWaitTxConf: waitForTransferTxConf. The registration fails,
\* or the select takes the confirmation (the chain mines the published tx
\* and the notifier delivers the event), the notifier's error, the done
\* context (confCtx comes from WithCtxQuitNoTimeout: it is done once Quit is
\* closed; confEvent is then nil, which is an error) or Quit (return nil,
\* state untouched).
StepWaitTxConf(p) ==
    /\ AtStep(p, SendStateWaitTxConf)
    /\ \/ \* case confEvent = <-confNtfn.Confirmed
          /\ chain[p].tx # "none"
          /\ chain' = [chain EXCEPT ![p].tx = "confirmed"]
          /\ pkg' = [pkg EXCEPT ![p].state = SendStateStoreProofs,
                                ![p].conf = TRUE, ![p].pc = "loop"]
          /\ log' = WaitLog(p, FALSE, "confirmed")
       \/ \* RegisterConfirmationsNtfn fails, or case err := <-errChan
          /\ chain' = chain
          /\ pkg' = StepFailed(p)
          /\ log' = WaitLog(p, TRUE, "error")
       \/ \* case <-confCtx.Done(): confEvent is nil after the select
          /\ quit
          /\ chain' = chain
          /\ pkg' = StepFailed(p)
          /\ log' = WaitLog(p, TRUE, "ctxDone")
       \/ \* case <-p.Quit: return nil
          /\ quit
          /\ chain' = chain
          /\ pkg' = [pkg EXCEPT ![p].pc = "loop"]
          /\ log' = WaitLog(p, FALSE, "quit")
    /\ UNCHANGED << shape, courier, errRecv, subs, stop, startOnce, quit,
                    intake, caller, kit, journal, archive >>

\* ---------------------------------------------------------------- storeProofs
\* The passive assets storeProofs iterates over: sendPkg.PassiveAssets, the
\* field of the in-memory package (not the record in OutboundPkg).
PassiveToUpdate(sh, pk) == IF pk.passive THEN PassiveIdx(sh) ELSE {}

\* The outputs storeProofs seals: none without active inputs, otherwise
\* every output that is not passive-only.
ActiveOutputs(sh) ==
    IF sh.nIn = 0 THEN {}
    ELSE {i \in OutIdx(sh) : sh.outs[i].type # "passiveOnly"}

\* A proof of a proof file: the output it proves (0 for a proof that was in
\* an input's file before the transfer), the input whose file it belongs
\* to, and its AdditionalInputs, a list of proof files.
Proof(out, input, additional) ==
    [out |-> out, input |-> input, additional |-> additional]

\* fetchInputProof: the proof file of input k as the archive holds it.
fetchInputProof(k) == << Proof(0, k, << >>) >>

\* proofSuffix.Decode(out.ProofSuffix): the suffix the parcel carries for
\* output i, which holds no additional inputs yet.
DecodeSuffix(i) == Proof(i, 0, << >>)

\* The loop over parcel.Inputs[1:]: the proof files of the inputs after the
\* first, appended in input order.
AdditionalInputs(nIn) == [k \in 1..(nIn - 1) |-> fetchInputProof(k + 1)]

\* Faulty variant: the suffix variable outlives the iteration, so output i
\* inherits the additional inputs of the outputs sealed before it.
SealProof_SharedSuffix(sh, i) ==
    LET RECURSIVE Acc(_)
        Acc(j) == IF j = 0 THEN << >>
                  ELSE IF sh.outs[j].type = "passiveOnly" THEN Acc(j - 1)
                  ELSE Acc(j - 1) \o AdditionalInputs(sh.nIn)
    IN  Append(fetchInputProof(1),
               [DecodeSuffix(i) EXCEPT !.additional = Acc(i)])

\* One iteration of storeProofs' loop over the outputs: the decoded suffix
\* gets the additional inputs, then is appended to the first input's file.
SealProof(sh, i) ==
    Append(fetchInputProof(1),
           [DecodeSuffix(i) EXCEPT
               !.additional = @ \o AdditionalInputs(sh.nIn)])

\* Faulty variant: only the first sealed output gets its entry.
FinalProofs_FirstOnly(sh, sealed) ==
    [k \in {sh.outs[i].key :
               i \in {j \in sealed : \A m \in sealed : j <= m}} |->
        SealProof(sh, CHOOSE i \in sealed : sh.outs[i].key = k)]

\* FinalProofs after sealing the outputs `sealed`: the sealed proof file of
\* each, under the output's script key.
FinalProofs(sh, sealed) ==
    [k \in {sh.outs[i].key : i \in sealed} |->
        SealProof(sh, CHOOSE i \in sealed : sh.outs[i].key = k)]

\* The archive after ImportProofs of the updated passive proof files and of
\* the sealed proofs of the outputs `sealed`.
ImportProofs(ar, passive, sealed) ==
    [passive |-> [a \in DOMAIN ar.passive |->
                    IF a \in passive THEN ar.passive[a] + 1
                    ELSE ar.passive[a]],
     active |-> ar.active \cup sealed]

\* case SendStateStoreProofs: storeProofs. It fails in the passive stage
\* (nothing imported), or at active output f (the passive files and the
\* outputs before f are imported), or runs to the end.
StepStoreProofs(p) ==
    /\ AtStep(p, SendStateStoreProofs)
    /\ LET sh == shape[p]
           passive == PassiveToUpdate(sh, pkg[p])
           active == ActiveOutputs(sh)
       IN  \/ /\ archive' = archive
              /\ pkg' = StepFailed(p)
              /\ log' = StepLog(p, TRUE)
           \/ \E f \in active :
                /\ archive' = [archive EXCEPT ![p] =
                      ImportProofs(@, passive, {i \in active : i < f})]
                /\ pkg' = StepFailed(p)
                /\ log' = StepLog(p, TRUE)
           \/ /\ archive' = [archive EXCEPT ![p] =
                      ImportProofs(@, passive, active)]
              /\ pkg' = [pkg EXCEPT
                           ![p].state = SendStateReceiverProofTransfer,
                           ![p].proofs = FinalProofs(sh, active),
                           ![p].pc = "loop"]
              /\ log' = StepLog(p, FALSE)
    /\ UNCHANGED << shape, courier, errRecv, subs, stop, startOnce, quit,
                    intake, caller, kit, journal, chain >>

\* ------------------------------------------------------ transferReceiverProof
\* Faulty variant: the test looks at the tweak alone.
IsLocalOutput_TweakOnly(sh, pk, i) == sh.outs[i].tweak

\* deliver's test for an output of our own wallet.
IsLocalOutput(sh, pk, i) == sh.outs[i].tweak /\ i \in pk.local

\* deliver's lookup of the sealed proof by script key.
HasFinalProof(sh, pk, i) == sh.outs[i].key \in DOMAIN pk.proofs

\* The outputs deliver hands to ProofCourier.DeliverProof, and those for
\* which it finds no proof.
ToDeliver(sh, pk) ==
    {i \in OutIdx(sh) : ~IsLocalOutput(sh, pk, i) /\ HasFinalProof(sh, pk, i)}

MissingProof(sh, pk) ==
    {i \in OutIdx(sh) : ~IsLocalOutput(sh, pk, i) /\ ~HasFinalProof(sh, pk, i)}

CourierResults == {"ok", "backoff", "error"}

\* Faulty variant: deliver returns nil whatever DeliverProof returned.
DeliverFails_Never(res) == FALSE

\* deliver's return value for one DeliverProof result: a backoff error is
\* turned into nil.
DeliverFails(res) == res = "error"

\* ParSlice runs deliver on every output and returns an error when one of
\* them did.
ParSliceFails(sh, pk, res) ==
    \/ MissingProof(sh, pk) # {}
    \/ \E i \in ToDeliver(sh, pk) : DeliverFails(res[i])

\* Faulty variant: the confirmation returns success without marking the record.
ConfirmParcelDelivery_NoMark(j) == j

\* ExportLog.ConfirmParcelDelivery succeeded.
ConfirmParcelDelivery(j) == [j EXCEPT !.status = "confirmed"]

\* case SendStateReceiverProofTransfer: transferReceiverProof. With a
\* courier, deliver every output; then fetch the passive proof files and
\* confirm the delivery in the journal.
StepReceiverProofTransfer(p) ==
    /\ AtStep(p, SendStateReceiverProofTransfer)
    /\ LET sh == shape[p]
           sent == IF courier THEN ToDeliver(sh, pkg[p]) ELSE {}
       IN  \E res \in [sent -> CourierResults] :
           LET called == [StepLog(p, FALSE) EXCEPT
                            ![p].run.courier = @ \cup sent,
                            ![p].run.backoff =
                                @ \/ \E i \in sent : res[i] = "backoff",
                            ![p].run.courierErr =
                                @ \/ \E i \in sent : res[i] = "error"]
           IN IF courier /\ ParSliceFails(sh, pkg[p], res)
              THEN /\ pkg' = StepFailed(p)
                   /\ log' = [called EXCEPT
                                ![p].run.failedAt = pkg[p].state]
                   /\ journal' = journal
              ELSE \/ \* FetchProof of a passive asset fails
                      /\ sh.nPassive > 0
                      /\ pkg' = StepFailed(p)
                      /\ log' = [called EXCEPT
                                   ![p].run.failedAt = pkg[p].state]
                      /\ journal' = journal
                   \/ \* ConfirmParcelDelivery fails
                      /\ log[p].confirmCalls - log[p].confirmOK
                            < MaxConfirmFailures
                      /\ pkg' = StepFailed(p)
                      /\ log' = [called EXCEPT
                                   ![p].run.failedAt = pkg[p].state,
                                   ![p].run.confirmRun = @ + 1,
                                   ![p].confirmCalls = @ + 1]
                      /\ journal' = journal
                   \/ \* ConfirmParcelDelivery succeeds
                      /\ pkg' = [pkg EXCEPT
                                   ![p].state = SendStateComplete,
                                   ![p].pc = "loop"]
                      /\ log' = [called EXCEPT
                                   ![p].run.confirmRun = @ + 1,
                                   ![p].confirmCalls = @ + 1,
                                   ![p].confirmOK = @ + 1]
                      /\ journal' = [journal EXCEPT ![p] =
                                       ConfirmParcelDelivery(@)]
    /\ UNCHANGED << shape, courier, errRecv, subs, stop, startOnce, quit,
                    intake, caller, kit, chain, archive >>

\* -------------------------------------------------------------- specification
Next ==
    \/ Start
    \/ Stop
    \/ Restart
    \/ \E p \in Parcels : RequestShipment(p)
    \/ \E p \in Parcels : IntakeRecv(p)
    \/ \E p \in Parcels : RequestShipmentAwait(p)
    \/ IntakeQuit
    \/ \E p \in Parcels : RequestShipmentReturn(p)
    \/ \E p \in Parcels : LoopHead(p)
    \/ \E p \in Parcels : SendErrChan(p)
    \/ \E p \in Parcels : StepVirtualCommitmentSelect(p)
    \/ \E p \in Parcels : StepVirtualSign(p)
    \/ \E p \in Parcels : StepAnchorSign(p)
    \/ \E p \in Parcels : StepLogCommit(p)
    \/ \E p \in Parcels : StepBroadcast(p)
    \/ \E p \in Parcels : StepWaitTxConf(p)
    \/ \E p \in Parcels : StepStoreProofs(p)
    \/ \E p \in Parcels : StepReceiverProofTransfer(p)

Spec == Init /\ [][Next]_vars

\* ------------------------------------------------- shutdown and subscribers
\* p.Wg is at zero: taroPorter has left its loop (or was never started) and
\* every resume goroutine has returned from advanceState.
WgDone ==
    /\ intake \in {"off", "exit"}
    /\ \A p \in Parcels : pkg[p].task = "resume" => pkg[p].pc = "ret"

\* Stop, second part: p.Wg.Wait() returns and the range over p.subscribers
\* begins.
StopWait ==
    /\ stop.pc = "wait"
    /\ WgDone
    /\ stop' = [stop EXCEPT !.pc = "range", !.ranged = subs.map,
                            !.started = startOnce]
    /\ UNCHANGED << shape, courier, errRecv, subs, startOnce, quit, intake,
                    caller, kit, pkg, journal, chain, archive, log >>

\* Stop's `for _, sub := range p.subscribers`, which reads the map without
\* subscriberMtx: the loop takes an entry the map holds now, or ends when no
\* entry that was there at its start is left (an entry added since may be
\* skipped).
StopRange ==
    /\ stop.pc = "range"
    /\ \/ \E s \in subs.map :
            stop' = [stop EXCEPT !.pc = "remove", !.sub = s]
       \/ /\ subs.map \cap stop.ranged = {}
          /\ stop' = [stop EXCEPT !.pc = "done"]
    /\ UNCHANGED << shape, courier, errRecv, subs, startOnce, quit, intake,
                    caller, kit, pkg, journal, chain, archive, log >>

\* RemoveSubscriber's lookup: "subscriber with ID %d not found".
RemoveSubscriberFails(sb, s) == s \notin sb.map

\* RemoveSubscriber on a registered subscriber: subscriber.Stop() and
\* delete(p.subscribers, id), under subscriberMtx.
RemoveSubscriber(sb, s) ==
    [sb EXCEPT !.map = @ \ {s}, !.stopped = @ \cup {s}]

\* Stop's loop body: p.RemoveSubscriber(sub), which takes subscriberMtx; an
\* error ends the loop and is Stop's result.
StopRemove ==
    /\ stop.pc = "remove"
    /\ subs.mtx = "free"
    /\ IF RemoveSubscriberFails(subs, stop.sub)
       THEN /\ stop' = [stop EXCEPT !.pc = "done", !.stopErr = TRUE]
            /\ subs' = subs
       ELSE /\ stop' = [stop EXCEPT !.pc = "range"]
            /\ subs' = RemoveSubscriber(subs, stop.sub)
    /\ UNCHANGED << shape, courier, errRecv, startOnce, quit, intake,
                    caller, kit, pkg, journal, chain, archive, log >>

\* A client calls RegisterSubscriber with a receiver it has just created:
\* p.subscriberMtx.Lock().
RegisterSubscriber(s) ==
    /\ s \notin subs.created
    /\ subs.mtx = "free"
    /\ subs' = [subs EXCEPT !.created = @ \cup {s}, !.mtx = "register",
                            !.arg = s]
    /\ UNCHANGED << shape, courier, errRecv, stop, startOnce, quit, intake,
                    caller, kit, pkg, journal, chain, archive, log >>

\* RegisterSubscriber, holding subscriberMtx: the write
\* p.subscribers[receiver.ID()] = receiver, then the deferred Unlock.
RegisterSubscriberWrite ==
    /\ subs.mtx = "register"
    /\ subs' = [subs EXCEPT !.map = @ \cup {subs.arg}, !.mtx = "free",
                            !.arg = 0]
    /\ UNCHANGED << shape, courier, errRecv, stop, startOnce, quit, intake,
                    caller, kit, pkg, journal, chain, archive, log >>

\* A client calls RemoveSubscriber with a receiver it has registered.
ClientRemoveSubscriber(s) ==
    /\ subs.mtx = "free"
    /\ ~RemoveSubscriberFails(subs, s)
    /\ subs' = RemoveSubscriber(subs, s)
    /\ UNCHANGED << shape, courier, errRecv, stop, startOnce, quit, intake,
                    caller, kit, pkg, journal, chain, archive, log >>

\* The main server stops receiving from cfg.ErrChan.
ErrChanReceiverLeaves ==
    /\ errRecv
    /\ errRecv' = FALSE
    /\ UNCHANGED << shape, courier, subs, stop, startOnce, quit, intake,
                    caller, kit, pkg, journal, chain, archive, log >>

StopNext ==
    \/ Next
    \/ StopWait
    \/ StopRange
    \/ StopRemove
    \/ \E s \in Subscribers : RegisterSubscriber(s)
    \/ RegisterSubscriberWrite
    \/ \E s \in Subscribers : ClientRemoveSubscriber(s)
    \/ ErrChanReceiverLeaves

\* The porter with its clients' subscriptions, the whole of Stop and a
\* server that may stop receiving errors.
StopSpec == Init /\ [][StopNext]_vars

\* ------------------------------------------------------------------- claims
Executed(p, state) ==
    \E k \in 1..Len(log[p].run.executed) : log[p].run.executed[k] = state

\* C1: PublishTransaction is never called for a parcel unless
\* LogPendingParcel completed for it, in this run's LogCommit or in an
\* earlier run.
C1_JournalBeforePublish ==
    \A p \in Parcels : log[p].publishCalled => journal[p].status # "none"

\* A parcel journaled by one run and lost before its Broadcast is published
\* by the run that resumes it.
C1_Witness ==
    \E p \in Parcels :
        /\ log[p].lostJournaled
        /\ pkg[p].task = "resume"
        /\ log[p].publishCalled

\* C2: while advanceState runs on a send package its state never moves
\* back: every step leaves it where it was or moves it to the immediate
\* successor, and a step that returns without error and was not cut short
\* by Quit moves it to the immediate successor.
C2_StateMonotone ==
    [][\A p \in Parcels :
         (pkg[p].task # "none" /\ pkg'[p].task = pkg[p].task) =>
            /\ pkg'[p].state \in {pkg[p].state, pkg[p].state + 1}
            /\ ( /\ pkg[p].pc = "step"
                 /\ pkg'[p].pc = "loop"
                 /\ ~(quit /\ pkg[p].state = SendStateWaitTxConf) )
               => pkg'[p].state = pkg[p].state + 1
            /\ pkg'[p].pc = "errchan" => pkg'[p].state = pkg[p].state]_vars

\* An address parcel went through all eight steps up to Complete.
C2_Witness ==
    \E p \in Parcels :
        /\ pkg[p].state = SendStateComplete
        /\ log[p].run.executed =
             [k \in 1..8 |-> k]

\* C3 (as claimed): when the courier answered Backoff in this run,
\* ConfirmParcelDelivery is not invoked in this run, the journal entry
\* stays pending and the state does not become Complete.
C3_BackoffLeavesPending ==
    \A p \in Parcels :
        log[p].run.backoff =>
            /\ log[p].run.confirmRun = 0
            /\ journal[p].status = "pending"
            /\ pkg[p].state # SendStateComplete

\* C4 (as claimed): a parcel at Complete has a successful
\* ConfirmParcelDelivery, and ConfirmParcelDelivery is invoked at most once
\* per anchor transaction.
C4_ConfirmInvokedOnce ==
    \A p \in Parcels :
        /\ pkg[p].state = SendStateComplete => log[p].confirmOK >= 1
        /\ log[p].confirmCalls <= 1

\* C4 (amended): ConfirmParcelDelivery succeeds exactly once for a parcel
\* at Complete and at most once for any parcel, a run invokes it at most
\* once, and it is never invoked again once it has succeeded; an invocation
\* that failed may be repeated by a later resume.
C4_ConfirmSucceedsOnce ==
    /\ [](\A p \in Parcels :
            /\ pkg[p].state = SendStateComplete => log[p].confirmOK = 1
            /\ log[p].confirmOK <= 1
            /\ log[p].run.confirmRun <= 1
            /\ (journal[p].status = "confirmed") = (log[p].confirmOK = 1))
    /\ [][\A p \in Parcels :
            log[p].confirmOK >= 1 =>
                log'[p].confirmCalls = log[p].confirmCalls]_vars

\* A resumed parcel reached Complete on the second invocation, the first
\* one having failed in an earlier run.
C4_Witness ==
    \E p \in Parcels :
        /\ pkg[p].state = SendStateComplete
        /\ pkg[p].task = "resume"
        /\ log[p].confirmCalls = 2
        /\ log[p].confirmOK = 1

\* What storeProofs imports in an uninterrupted run of a parcel of shape sh.
UninterruptedImports(sh) ==
    ImportProofs([passive |-> [a \in PassiveIdx(sh) |-> 0], active |-> {}],
                 PassiveIdx(sh), ActiveOutputs(sh))

\* C5 (as claimed): a parcel lost between LogCommit's journal write and
\* Broadcast and resumed by the restarted porter ends at Complete with the
\* proof imports of an uninterrupted run and at most one journal
\* confirmation.
C5_ResumeSameImports ==
    \A p \in Parcels :
        ( /\ log[p].lostJournaled
          /\ pkg[p].task = "resume"
          /\ pkg[p].state = SendStateComplete ) =>
            /\ archive[p] = UninterruptedImports(shape[p])
            /\ log[p].confirmOK <= 1

\* C6 (as claimed): once storeProofs has run for the confirmed anchor
\* transaction, every passive asset's proof file was updated and imported
\* exactly once, in an uninterrupted run and in a resumed one.
C6_PassiveUpdatedOnce ==
    \A p \in Parcels :
        pkg[p].state \in {SendStateReceiverProofTransfer, SendStateComplete}
            => \A a \in PassiveIdx(shape[p]) : archive[p].passive[a] = 1

\* The outputs of a journaled parcel that are not local: no tweak, or not
\* flagged ScriptKeyLocal in the record.
NonLocalOutputs(p) ==
    {i \in OutIdx(shape[p]) :
        ~(shape[p].outs[i].tweak /\ i \in journal[p].local)}

\* The outputs storeProofs seals a proof for.
SealedOutputs(p) ==
    {i \in OutIdx(shape[p]) :
        shape[p].nIn > 0 /\ shape[p].outs[i].type # "passiveOnly"}

TransferRan(p) == courier /\ Executed(p, SendStateReceiverProofTransfer)

C8_EventsFollowSteps ==
    \A p \in Parcels :
        log[p].run.events =
            IF pkg[p].pc = "step"
            THEN Append(log[p].run.executed, pkg[p].state)
            ELSE log[p].run.executed

\* A resumed parcel published and executed Broadcast up to
\* ReceiverProofTransfer.
C8_Witness ==
    \E p \in Parcels :
        /\ pkg[p].state = SendStateComplete
        /\ log[p].run.events =
             << SendStateBroadcast, SendStateWaitTxConf,
                SendStateStoreProofs, SendStateReceiverProofTransfer >>

InFlight(p) ==
    pkg[p].state < SendStateBroadcast /\ journal[p].status = "none"

Pending(p) ==
    /\ journal[p].status = "pending"
    /\ pkg[p].state \in SendStateBroadcast..SendStateReceiverProofTransfer

Complete(p) ==
    pkg[p].state = SendStateComplete /\ journal[p].status = "confirmed"

\* C9: every parcel with a send package is in-flight, pending or complete,
\* and in one of the three only.
C9_ThreeConditions ==
    \A p \in Parcels :
        pkg[p].task # "none" =>
            /\ InFlight(p) \/ Pending(p) \/ Complete(p)
            /\ ~(InFlight(p) /\ Pending(p))
            /\ ~(InFlight(p) /\ Complete(p))
            /\ ~(Pending(p) /\ Complete(p))

\* A pending parcel that failed in ReceiverProofTransfer.
C9_Witness ==
    \E p \in Parcels :
        /\ Pending(p)
        /\ log[p].run.failedAt = SendStateReceiverProofTransfer

FailedBeforeBroadcast(p) ==
    log[p].run.failedAt \in
        SendStateVirtualCommitmentSelect..SendStateLogCommit

\* C10 (as claimed): after a failure in one of the first four states no
\* journal record exists, PublishTransaction was not called, and
\* RequestShipment, once it returns, returns that error.
C10_EarlyFailureReturnsError ==
    \A p \in Parcels :
        FailedBeforeBroadcast(p) =>
            /\ journal[p].status = "none"
            /\ ~log[p].publishCalled
            /\ caller[p] \in {"sent", "waiting", "gotErr"}

\* C10 (amended): after a failure in one of the first four states no
\* journal record exists, PublishTransaction was not called, and
\* RequestShipment never returns an outbound parcel: it returns that error,
\* or ShuttingDown when Quit was closed before it took the error.
C10_EarlyFailureErrorOrShutdown ==
    \A p \in Parcels :
        FailedBeforeBroadcast(p) =>
            /\ journal[p].status = "none"
            /\ ~log[p].publishCalled
            /\ ~kit[p].resp
            /\ caller[p] \in {"sent", "waiting", "gotErr", "shutdown"}
            /\ caller[p] = "shutdown" => quit
            /\ caller[p] = "gotErr" => log[p].run.errSent = 1

\* LogPendingParcel failed and the caller got the error.
C10_Witness ==
    \E p \in Parcels :
        /\ log[p].run.failedAt = SendStateLogCommit
        /\ caller[p] = "gotErr"

\* C11: RequestShipment holds or has returned an outbound parcel only when
\* every output flagged local is in the wallet and PublishTransaction
\* succeeded; PublishTransaction is called only after every local output was
\* imported; when the import or the publication failed, no broadcast response
\* was delivered and the state is still Broadcast.
C11_ResponseAfterImportAndPublish ==
    \A p \in Parcels :
        /\ (kit[p].resp \/ caller[p] = "gotResp") =>
              /\ journal[p].status # "none"
              /\ journal[p].local \subseteq chain[p].wallet
              /\ log[p].publishCalled
              /\ chain[p].tx # "none"
        /\ log[p].publishCalled => journal[p].local \subseteq chain[p].wallet
        /\ log[p].run.failedAt = SendStateBroadcast =>
              /\ ~kit[p].resp
              /\ caller[p] # "gotResp"
              /\ pkg[p].state = SendStateBroadcast

\* The caller of a parcel with a local output got the outbound parcel.
C11_Witness ==
    \E p \in Parcels :
        /\ caller[p] = "gotResp"
        /\ journal[p].local # {}
        /\ journal[p].local \subseteq chain[p].wallet

\* C12 (as claimed): a call that reached its first await with Quit closed
\* never returns an outbound parcel or a step error, and a call that reaches
\* its second await with Quit closed returns ShuttingDown.
C12_QuitAtAwaitShutsDown ==
    /\ [](\A p \in Parcels :
            log[p].run.quitAtAwait => caller[p] \notin {"gotResp", "gotErr"})
    /\ [][\A p \in Parcels :
            (quit /\ caller[p] = "sent" /\ caller'[p] \notin {"sent", "idle"})
                => caller'[p] = "shutdown"]_vars

\* C12 (amended): a call that reached its first await with Quit closed gets
\* no response and no error and can only return ShuttingDown; a call that
\* reaches its second await with Quit closed returns at once, with
\* ShuttingDown when the kit's channels are empty, and otherwise with
\* ShuttingDown or with the response or the error the driver had already
\* put there.
C12_QuitAtAwaitShutsDownUnlessAnswered ==
    /\ [](\A p \in Parcels :
            log[p].run.quitAtAwait =>
                /\ caller[p] \in {"sending", "sent", "shutdown"}
                /\ ~kit[p].resp
                /\ ~kit[p].err)
    /\ [][\A p \in Parcels :
            (quit /\ caller[p] = "sent" /\ caller'[p] \notin {"sent", "idle"})
                => \/ caller'[p] = "shutdown"
                   \/ caller'[p] = "gotResp" /\ kit[p].resp
                   \/ caller'[p] = "gotErr" /\ kit[p].err]_vars

\* A call made after Stop was handed to taroPorter and returned
\* ShuttingDown from its second await.
C12_Witness ==
    \E p \in Parcels :
        /\ log[p].run.quitAtAwait
        /\ pkg[p].task = "intake"
        /\ caller[p] = "shutdown"

\* advanceState is running for the parcel on some goroutine.
DriverRunning(p) == pkg[p].pc \in {"loop", "step", "errchan"}

\* The next thing the goroutine that runs advanceState for the parcel does.
DriverStep(p) ==
    \/ LoopHead(p)
    \/ SendErrChan(p)
    \/ StepVirtualCommitmentSelect(p)
    \/ StepVirtualSign(p)
    \/ StepAnchorSign(p)
    \/ StepLogCommit(p)
    \/ StepBroadcast(p)
    \/ StepWaitTxConf(p)
    \/ StepStoreProofs(p)
    \/ StepReceiverProofTransfer(p)

\* C13 (as claimed): once Stop has closed Quit nothing is stuck: every
\* driver that has not returned can take its next step, wherever it is, the
\* idle intake task can leave, and Stop can go on once the tasks have ended
\* (and the client that holds the subscriber mutex has released it); so they
\* all end and Stop returns.
C13_QuitEndsEveryTask ==
    quit =>
        /\ \A p \in Parcels : DriverRunning(p) => ENABLED DriverStep(p)
        /\ intake = "idle" => ENABLED IntakeQuit
        /\ stop.pc \in {"wait", "range", "remove"} =>
              \/ ~WgDone
              \/ subs.mtx # "free"
              \/ ENABLED (StopWait \/ StopRange \/ StopRemove)

\* C14 (as claimed): when Stop returns, Quit is closed, no intake or driver
\* task started before its wait is still running, every subscriber that was
\* registered when it began removing them has been stopped and none of them
\* is left in the subscriber set; and a Stop that has returned is not
\* undone by a later call.
C14_StopStopsEverything ==
    /\ [][(stop.pc # "done" /\ stop'.pc = "done") =>
            /\ quit'
            /\ stop.started => WgDone'
            /\ stop.ranged \subseteq subs'.stopped
            /\ stop.ranged \cap subs'.map = {}]_vars
    /\ [][stop.pc = "done" => (stop' = stop \/ stop' = NoStop)]_vars

\* C15: the Start call that fires startOnce and loads the pending parcels
\* starts one driver for each pending parcel, at Broadcast, none for any
\* other parcel, and one intake task (when the load fails it starts
\* nothing); no step taken once startOnce has fired, a further Start call
\* included, starts a resume driver or an intake task.
C15_StartSpawnsOnce ==
    /\ [][(~startOnce /\ startOnce') =>
            \/ /\ intake' = "idle"
               /\ \A p \in Parcels :
                     IF journal[p].status = "pending"
                     THEN /\ pkg'[p].task = "resume"
                          /\ pkg'[p].pc = "loop"
                          /\ pkg'[p].state = SendStateBroadcast
                          /\ log'[p].run.drivers = 1
                     ELSE /\ pkg'[p] = pkg[p]
                          /\ log'[p].run.drivers = log[p].run.drivers
            \/ /\ intake' = "off"
               /\ pkg' = pkg
               /\ log' = log]_vars
    /\ [][(startOnce /\ startOnce') =>
            /\ ~(intake \in {"off", "exit"} /\ intake' = "idle")
            /\ \A p \in Parcels :
                  pkg'[p].task = "resume" =>
                      /\ pkg[p].task = "resume"
                      /\ log'[p].run.drivers = log[p].run.drivers]_vars

\* Start resumed a pending parcel and started the intake task, and the
\* resumed driver has gone past Broadcast.
C15_Witness ==
    \E p \in Parcels :
        /\ startOnce
        /\ intake = "idle"
        /\ pkg[p].task = "resume"
        /\ pkg[p].state = SendStateWaitTxConf
        /\ log[p].run.drivers = 1

\* C16 (as claimed): once a request has been answered with the broadcast
\* response, its confirmation wait, proof sealing and courier delivery do
\* not occupy the intake task, which is back in its select and can take the
\* next parcel.
C16_IntakeFreeAfterResponse ==
    \A p \in Parcels :
        ( /\ pkg[p].task = "intake"
          /\ DriverRunning(p)
          /\ pkg[p].state \in
                SendStateWaitTxConf..SendStateReceiverProofTransfer )
            => intake = "idle"

\* The step of the parcel's driver failed in this run.
StepErrored(p) == log[p].run.failedAt # 0

\* C17: a step error is sent to cfg.ErrChan once, and before advanceState
\* returns; when it is the intake task that returns with the error, a
\* caller blocked in its select receives the error and for a caller that
\* has not reached the select the error waits in the kit's errChan; and
\* after the error the driver executes no further step in this run.
C17_StepErrorReported ==
    /\ [](\A p \in Parcels :
            /\ log[p].run.errSent <= 1
            /\ log[p].run.errSent = 1 => StepErrored(p)
            /\ StepErrored(p) =>
                  /\ pkg[p].pc \in {"errchan", "ret"}
                  /\ pkg[p].state = log[p].run.failedAt
                  /\ (pkg[p].pc = "ret") = (log[p].run.errSent = 1)
            /\ (kit[p].err \/ caller[p] = "gotErr") =>
                  /\ log[p].run.errSent = 1
                  /\ pkg[p].task = "intake")
    /\ [][\A p \in Parcels :
            ( /\ pkg[p].task = "intake"
              /\ pkg[p].pc = "errchan"
              /\ pkg'[p].pc = "ret" ) =>
                /\ caller[p] = "waiting" => caller'[p] = "gotErr"
                /\ caller[p] = "sent" => kit'[p].err
                /\ intake' = "idle"]_vars
    /\ [][\A p \in Parcels :
            (StepErrored(p) /\ pkg'[p].task # "none") =>
                log'[p].run.executed = log[p].run.executed]_vars

\* The caller got the error of a failed Broadcast step, which was sent to
\* cfg.ErrChan once.
C17_Witness ==
    \E p \in Parcels :
        /\ log[p].run.failedAt = SendStateBroadcast
        /\ log[p].run.errSent = 1
        /\ caller[p] = "gotErr"
        /\ ~kit[p].err

NoCollaboratorFails ==
    \A p \in Parcels :
        /\ ~log'[p].run.backoff
        /\ (log[p].run.failedAt = 0 /\ log'[p].run.failedAt # 0) =>
              /\ AtStep(p, SendStateReceiverProofTransfer)
              /\ courier
              /\ MissingProof(shape[p], pkg[p]) # {}

\* The process dies once, while a request's parcel is pending in the journal:
\* the next Start resumes that parcel.
CrashWhilePending ==
    /\ \E p \in Parcels :
          pkg[p].task = "intake" /\ journal[p].status = "pending"
    /\ \A p \in Parcels : pkg[p].task # "resume"
    /\ Restart

\* The porter with Quit left open, every collaborator call succeeding and
\* the chain confirming every published anchor transaction.
LiveNext ==
    \/ Start /\ intake' # "off"
    \/ CrashWhilePending
    \/ \E p \in Parcels : RequestShipment(p)
    \/ \E p \in Parcels : IntakeRecv(p)
    \/ \E p \in Parcels : RequestShipmentAwait(p)
    \/ \E p \in Parcels : DriverStep(p) /\ NoCollaboratorFails

\* Every goroutine that runs advanceState is scheduled, every call it makes
\* returns, and the confirmation it waits for arrives.
LiveSpec ==
    /\ Init
    /\ [][LiveNext]_vars
    /\ \A p \in Parcels : WF_vars(DriverStep(p) /\ NoCollaboratorFails)

\* C19 (as claimed): with Quit open, every collaborator call succeeding and
\* the anchor transaction confirmed by the chain, every parcel the intake
\* task accepted or Start resumed reaches Complete and is confirmed in the
\* journal, as long as the process that drives it lives.
C19_AcceptedOrResumedCompletes ==
    \A p \in Parcels :
        (pkg[p].task # "none") ~>
            \/ pkg[p].task = "none"
            \/ /\ pkg[p].state = SendStateComplete
               /\ journal[p].status = "confirmed"

\* C21 (as claimed): a confirmation wait that ends because its context is
\* cancelled or because Quit is closed returns no error: the step does not
\* fail, nothing is sent on the error channel and the package stays at
\* WaitTxConf.
C21_CancelledWaitIsSilent ==
    \A p \in Parcels :
        log[p].run.waitEnd \in {"ctxDone", "quit"} =>
            /\ log[p].run.failedAt = 0
            /\ log[p].run.errSent = 0
            /\ pkg[p].state = SendStateWaitTxConf

\* The outputs the courier delivery is about: not passive-only, and not
\* recognised by deliver as an output of this wallet.
ActiveNonLocal(p) ==
    {i \in OutIdx(shape[p]) :
        /\ shape[p].outs[i].type # "passiveOnly"
        /\ ~IsLocalOutput(shape[p], pkg[p], i)}

\* transferReceiverProof is about to run with a courier.
DeliveryBegins(p) == courier /\ AtStep(p, SendStateReceiverProofTransfer)

\* C22: when the courier delivery begins, FinalProofs holds the entry of
\* every output that is not passive-only and not local, under that output's
\* script key (a map has one entry per key), and every entry belongs to an
\* output of the parcel; for fresh and for resumed parcels, with or without
\* active inputs.
C22_FinalProofsCoverNonLocal ==
    \A p \in Parcels :
        DeliveryBegins(p) =>
            /\ \A i \in ActiveNonLocal(p) :
                  HasFinalProof(shape[p], pkg[p], i)
            /\ DOMAIN pkg[p].proofs \subseteq
                  {shape[p].outs[i].key : i \in OutIdx(shape[p])}

\* The delivery begins for a resumed parcel that has a local and a
\* non-local active output.
C22_Witness ==
    \E p \in Parcels :
        /\ DeliveryBegins(p)
        /\ pkg[p].task = "resume"
        /\ ActiveNonLocal(p) # {}
        /\ \E i \in OutIdx(shape[p]) : IsLocalOutput(shape[p], pkg[p], i)

\* transferReceiverProof ran and met a non-local output without a sealed
\* proof, or a courier error other than a backoff.
TransferMustFail(p) ==
    /\ Executed(p, SendStateReceiverProofTransfer)
    /\ \/ MissingProof(shape[p], pkg[p]) # {}
       \/ log[p].run.courierErr

\* The step failed in ReceiverProofTransfer: no ConfirmParcelDelivery, the
\* state and the journal record as they were.
TransferFailed(p) ==
    /\ log[p].run.failedAt = SendStateReceiverProofTransfer
    /\ log[p].run.confirmRun = 0
    /\ pkg[p].state = SendStateReceiverProofTransfer
    /\ journal[p].status = "pending"

\* C23 (as claimed): a non-local output without a sealed proof, or a courier
\* error other than a backoff, makes ReceiverProofTransfer fail.
C23_MissingProofOrCourierErrorFails ==
    \A p \in Parcels : TransferMustFail(p) => TransferFailed(p)

\* C23 (amended): with a proof courier configured, a non-local output
\* without a sealed proof, or a courier error other than a backoff, makes
\* ReceiverProofTransfer fail; without a courier no output is looked at.
C23_WithCourierMissingProofOrErrorFails ==
    \A p \in Parcels :
        courier /\ TransferMustFail(p) => TransferFailed(p)

\* The courier returned an error for an output whose proof was found, on a
\* parcel where every non-local output has its proof.
C23_Witness ==
    \E p \in Parcels :
        /\ courier
        /\ Executed(p, SendStateReceiverProofTransfer)
        /\ log[p].run.courierErr
        /\ MissingProof(shape[p], pkg[p]) = {}

\* C24: in the Broadcast step an "already exists" answer of the wallet never
\* stops importLocalAddresses, which returns an error exactly at the output
\* where the wallet failed otherwise; when the wallet did not fail, every
\* local output is in the wallet and PublishTransaction was called; when it
\* did, the step failed and PublishTransaction was not called in this run;
\* and the wallet never holds an output that is not flagged local.
C24_ImportThenPublish ==
    \A p \in Parcels :
        /\ chain[p].wallet \subseteq StampLocal(shape[p])
        /\ AtStep(p, SendStateBroadcast) =>
              \A fault \in pkg[p].local \cup {0} :
                  importLocalAddresses(pkg[p].local, chain[p].wallet, fault)
                      = fault
        /\ Executed(p, SendStateBroadcast) =>
              IF log[p].run.importErr
              THEN /\ ~log[p].run.published
                   /\ log[p].run.failedAt = SendStateBroadcast
              ELSE /\ log[p].run.published
                   /\ pkg[p].local \subseteq chain[p].wallet

\* The Broadcast step runs for a resumed package whose local outputs are
\* all in the wallet already: every import is answered "already exists".
C24_Witness ==
    \E p \in Parcels :
        /\ AtStep(p, SendStateBroadcast)
        /\ pkg[p].task = "resume"
        /\ pkg[p].local # {}
        /\ pkg[p].local \subseteq chain[p].wallet

\* A step keeps every proof the archive holds for the parcel.
ImportsKept(p) ==
    /\ archive[p].active \subseteq archive'[p].active
    /\ \A a \in PassiveIdx(shape[p]) :
          archive[p].passive[a] <= archive'[p].passive[a]

\* C25: a failure inside storeProofs halts the step: the package stays at
\* StoreProofs, ReceiverProofTransfer does not run, so the courier is not
\* called and the delivery is not confirmed in this run, the journal record
\* stays pending; and no step, the failing one included, takes a proof out of
\* the archive.
C25_StoreProofsFailureHalts ==
    /\ [](\A p \in Parcels :
            log[p].run.failedAt = SendStateStoreProofs =>
                /\ pkg[p].state = SendStateStoreProofs
                /\ ~Executed(p, SendStateReceiverProofTransfer)
                /\ log[p].run.courier = {}
                /\ log[p].run.confirmRun = 0
                /\ journal[p].status = "pending")
    /\ [][\A p \in Parcels : ImportsKept(p)]_vars

\* storeProofs failed in the first run of a parcel, at an active output,
\* after the passive proof files and an earlier output were imported.
C25_Witness ==
    \E p \in Parcels :
        /\ log[p].run.failedAt = SendStateStoreProofs
        /\ pkg[p].task = "intake"
        /\ pkg[p].passive
        /\ archive[p].active # {}
        /\ archive[p].active # ActiveOutputs(shape[p])
        /\ \A a \in PassiveIdx(shape[p]) : archive[p].passive[a] > 0

\* C26: for a parcel with active inputs, the sealed proof of every output
\* that is not passive-only is the first input's proof file followed by that
\* output's suffix, and the suffix's additional inputs are the proof files
\* of the inputs after the first, in input order: as many for the last output
\* as for the first.
C26_SealedProofOfEachOutput ==
    \A p \in Parcels :
        \A i \in ActiveOutputs(shape[p]) :
            HasFinalProof(shape[p], pkg[p], i) =>
                LET file == pkg[p].proofs[shape[p].outs[i].key]
                    nIn == shape[p].nIn
                IN  /\ Len(file) = Len(fetchInputProof(1)) + 1
                    /\ SubSeq(file, 1, Len(file) - 1) = fetchInputProof(1)
                    /\ file[Len(file)].out = i
                    /\ Len(file[Len(file)].additional) = nIn - 1
                    /\ \A k \in 1..(nIn - 1) :
                          file[Len(file)].additional[k]
                              = fetchInputProof(k + 1)

\* storeProofs sealed two outputs of a parcel that merges two inputs.
C26_Witness ==
    \E p \in Parcels :
        /\ shape[p].nIn > 1
        /\ Cardinality(ActiveOutputs(shape[p])) > 1
        /\ \A i \in ActiveOutputs(shape[p]) :
              HasFinalProof(shape[p], pkg[p], i)

\* storeProofs ran to its end in this run of the parcel.
StoreProofsDone(p) ==
    /\ Executed(p, SendStateStoreProofs)
    /\ log[p].run.failedAt # SendStateStoreProofs

\* C27 (as claimed): for a parcel without active inputs, once storeProofs
\* has run to its end the archive holds the updated proof file of each of
\* its passive assets, imported once, no active output was sealed,
\* FinalProofs is empty and the package has moved on to
\* ReceiverProofTransfer or beyond.
C27_PassiveOnlyParcelStored ==
    \A p \in Parcels :
        (shape[p].nIn = 0 /\ StoreProofsDone(p)) =>
            /\ \A a \in PassiveIdx(shape[p]) : archive[p].passive[a] = 1
            /\ archive[p].active = {}
            /\ pkg[p].proofs = NoFinalProofs
            /\ pkg[p].state >= SendStateReceiverProofTransfer

\* C28 (as claimed): the subscriber map is read and written under the
\* subscriber mutex only, so the step in which Stop's range reads the map is
\* never taken while another call is inside its critical section, about to
\* write the map.
C28_MapAccessUnderMutex ==
    [][(stop.pc = "range" /\ stop'.pc \in {"remove", "done"}) =>
          subs.mtx = "free"]_vars

\* Start's startOnce has fired and PendingParcels failed: nothing was
\* launched.
FailedStart == startOnce /\ intake = "off"

\* C29: after a first Start that failed to load the pending parcels no
\* driver and no intake task runs and none is started by any later step, a
\* further Start call included, for as long as this porter lives; a
\* RequestShipment call made then is not picked up: it waits in its send or
\* has returned ShuttingDown.
C29_FailedStartStartsNothing ==
    /\ [](FailedStart =>
            \A p \in Parcels :
                /\ pkg[p].task = "none"
                /\ log[p].run.drivers = 0
                /\ caller[p] \in {"idle", "sending", "shutdown"})
    /\ [][FailedStart => (FailedStart' \/ ~startOnce')]_vars

\* After a failed Start a RequestShipment call has returned ShuttingDown.
C29_Witness ==
    \E p \in Parcels : FailedStart /\ caller[p] = "shutdown"
====
